---- MODULE Spec2Model ----
(***************************************************************************)
(* Review feedback service (backend/main.py): validation of a submission,  *)
(* three prompt-templated calls to the text-generation service, and        *)
(* whole-document persistence of the review collection in reviews.json.    *)
(*                                                                         *)
(* Text is a sequence of one-character strings (fixed messages are kept as *)
(* one token).  The persisted document is `file`; `calls` holds, per       *)
(* request slot, the request being served or the last one answered.        *)
(***************************************************************************)
EXTENDS Integers, Sequences, FiniteSets, TLC

VARIABLES file, calls

vars == <<file, calls>>

(* ------------------------------ bounds -------------------------------- *)

\* Most records the collection is let to grow to.
MaxReviews == 2

\* Wall-clock readings are 0..MaxClock.
MaxClock == 1

\* Most records of the collection in the analytics specification.
MaxAnalyticsReviews == 3

(* ------------------------- program constants -------------------------- *)

MinRating == 1

MaxRating == 5

Whitespace == {" ", "\t", "\n", "\r"}

(* ------------------------------- text --------------------------------- *)

RECURSIVE LStrip(_)
LStrip(s) == IF s /= <<>> /\ Head(s) \in Whitespace THEN LStrip(Tail(s)) ELSE s

RECURSIVE RStrip(_)
RStrip(s) ==
    IF s /= <<>> /\ s[Len(s)] \in Whitespace
    THEN RStrip(SubSeq(s, 1, Len(s) - 1))
    ELSE s

\* str.strip(): leading and trailing whitespace removed.
Strip(s) == RStrip(LStrip(s))

\* str(datetime.now().timestamp()): the float's decimal text, one per reading.
TimestampStr(t) == ToString(t) \o ".0"

\* datetime.now().isoformat()
IsoFormat(t) == "1970-01-01T00:00:0" \o ToString(t)

(* -------------------------- storage accessor -------------------------- *)

\* reviews.json does not exist (the state before the first save).
NoFile == [kind |-> "absent", reviews |-> <<>>]

\* json.dump(reviews, f, indent=2): the document holding the whole collection.
JsonDump(reviews) == [kind |-> "json", reviews |-> reviews]

\* open(DB_FILE, 'w'): the file exists and is empty until the dump is written.
OpenForWrite(f) == [kind |-> "partial", reviews |-> <<>>]

\* Variant: the existing document is not read.
load_reviews_fresh(f, fault) ==
    IF fault = "load" THEN [ok |-> FALSE, reviews |-> <<>>, error |-> <<"OSError">>]
    ELSE [ok |-> TRUE, reviews |-> <<>>, error |-> <<>>]

\* load_reviews(): the collection, [] without a file; json.load raises on a
\* document that is empty or cut short.  fault = "load": the read raises.
load_reviews(f, fault) ==
    IF fault = "load" THEN [ok |-> FALSE, reviews |-> <<>>, error |-> <<"OSError">>]
    ELSE IF f.kind = "absent" THEN [ok |-> TRUE, reviews |-> <<>>, error |-> <<>>]
    ELSE IF f.kind = "json" THEN [ok |-> TRUE, reviews |-> f.reviews, error |-> <<>>]
    ELSE [ok |-> FALSE, reviews |-> <<>>, error |-> <<"JSONDecodeError">>]

\* save_reviews(reviews): open for writing (truncates), then dump.
\* fault = "save_open": open raises; fault = "save_dump": the write raises
\* after the file was truncated.
save_reviews(f, reviews, fault) ==
    IF fault = "save_open" THEN [ok |-> FALSE, file |-> f, error |-> <<"PermissionError">>]
    ELSE IF fault = "save_dump"
    THEN [ok |-> FALSE, file |-> OpenForWrite(f), error |-> <<"OSError">>]
    ELSE [ok |-> TRUE, file |-> JsonDump(reviews), error |-> <<>>]

Faults == {"none", "load", "save_open", "save_dump"}

(* ------------------------ AI content generator ------------------------ *)

\* What the service sends back for a prompt: free text, here naming the
\* prompt it answers, with whitespace around it.
ServiceText(prompt) == <<" ", prompt, "\n">>

\* str(e) of the exception a failing call raises.
ServiceError == <<"503 unavailable">>

\* up: model.generate_content(prompt) returns; otherwise it raises.
generate_ai_response(rating, review_text, up) ==
    IF up THEN Strip(ServiceText("response"))
    ELSE <<"Error generating response: ">> \o ServiceError

generate_ai_summary(review_text, rating, up) ==
    IF up THEN Strip(ServiceText("summary"))
    ELSE <<"Unable to generate summary">>

generate_recommended_action(review_text, rating, summary, up) ==
    IF up THEN Strip(ServiceText("action"))
    ELSE <<"Unable to generate action">>

(* ------------------------ review workflow handler --------------------- *)

\* Variant: the trimmed text is stored.
NewReviewStripped(rating, review_text, ai_response, ai_summary, ai_action, now_id, now_ts) ==
    [id |-> TimestampStr(now_id),
     user_rating |-> rating,
     user_review |-> Strip(review_text),
     ai_response |-> ai_response,
     ai_summary |-> ai_summary,
     ai_recommended_action |-> ai_action,
     timestamp |-> IsoFormat(now_ts),
     status |-> "pending"]

\* The review object built by submit_review.
NewReview(rating, review_text, ai_response, ai_summary, ai_action, now_id, now_ts) ==
    [id |-> TimestampStr(now_id),
     user_rating |-> rating,
     user_review |-> review_text,
     ai_response |-> ai_response,
     ai_summary |-> ai_summary,
     ai_recommended_action |-> ai_action,
     timestamp |-> IsoFormat(now_ts),
     status |-> "pending"]

\* The generator calls of a submission, in order, each with what the service did.
AiCalls(env) ==
    <<[fn |-> "generate_ai_response", up |-> env.ai[1]],
      [fn |-> "generate_ai_summary", up |-> env.ai[2]],
      [fn |-> "generate_recommended_action", up |-> env.ai[3]]>>

\* Variant: the text is tested without trimming.
ValidateUnstripped(rating, review_text) ==
    IF ~(MinRating <= rating /\ rating <= MaxRating)
    THEN [ok |-> FALSE, resp |-> [ai_response |-> <<"Invalid rating">>, success |-> FALSE]]
    ELSE IF review_text = <<>>
    THEN [ok |-> FALSE,
          resp |-> [ai_response |-> <<"Review text cannot be empty">>, success |-> FALSE]]
    ELSE [ok |-> TRUE, resp |-> [ai_response |-> <<>>, success |-> TRUE]]

\* The validation at the head of submit_review: the failure response, or none.
Validate(rating, review_text) ==
    IF ~(MinRating <= rating /\ rating <= MaxRating)
    THEN [ok |-> FALSE, resp |-> [ai_response |-> <<"Invalid rating">>, success |-> FALSE]]
    ELSE IF Strip(review_text) = <<>>
    THEN [ok |-> FALSE,
          resp |-> [ai_response |-> <<"Review text cannot be empty">>, success |-> FALSE]]
    ELSE [ok |-> TRUE, resp |-> [ai_response |-> <<>>, success |-> TRUE]]

\* Variant: a failed summary makes the action call fail too.
GenerateReviewChained(rating, review_text, env) ==
    LET ai_response == generate_ai_response(rating, review_text, env.ai[1])
        ai_summary == generate_ai_summary(review_text, rating, env.ai[2])
        ai_action == generate_recommended_action(review_text, rating, ai_summary,
                                                 env.ai[2] /\ env.ai[3])
    IN  NewReview(rating, review_text, ai_response, ai_summary, ai_action,
                  env.now_id, env.now_ts)

\* The three generator calls and the review object (the summary feeds the
\* action prompt).
GenerateReview(rating, review_text, env) ==
    LET ai_response == generate_ai_response(rating, review_text, env.ai[1])
        ai_summary == generate_ai_summary(review_text, rating, env.ai[2])
        ai_action == generate_recommended_action(review_text, rating, ai_summary, env.ai[3])
    IN  NewReview(rating, review_text, ai_response, ai_summary, ai_action,
                  env.now_id, env.now_ts)

\* Variant: reviews.insert(0, review)
PrependReview(reviews, review) == <<review>> \o reviews

\* reviews.append(review)
AppendReview(reviews, review) == Append(reviews, review)

\* The except branch of submit_review.
ErrorResponse(error) == [ai_response |-> <<"Error: ">> \o error, success |-> FALSE]

\* submit_review, whole: the document afterwards, the response, and the
\* generator calls made (trace).
submit_review(f, rating, review_text, env) ==
    LET valid == Validate(rating, review_text) IN
    IF ~valid.ok THEN [file |-> f, resp |-> valid.resp, trace |-> <<>>]
    ELSE
      LET review == GenerateReview(rating, review_text, env)
          loaded == load_reviews(f, env.fault)
          saved == save_reviews(f, AppendReview(loaded.reviews, review), env.fault)
      IN  IF ~loaded.ok
          THEN [file |-> f, resp |-> ErrorResponse(loaded.error), trace |-> AiCalls(env)]
          ELSE IF ~saved.ok
          THEN [file |-> saved.file, resp |-> ErrorResponse(saved.error),
                trace |-> AiCalls(env)]
          ELSE [file |-> saved.file,
                resp |-> [ai_response |-> review.ai_response, success |-> TRUE],
                trace |-> AiCalls(env)]

\* An uncaught exception: the framework answers 500 Internal Server Error.
ServerError(error) == [status_code |-> 500, raised |-> error]

\* get_all_reviews
get_all_reviews(f, fault) ==
    LET loaded == load_reviews(f, fault) IN
    IF ~loaded.ok THEN ServerError(loaded.error)
    ELSE [reviews |-> loaded.reviews, total |-> Len(loaded.reviews)]

\* The linear scan of get_review and update_review_status: the position of
\* the first review carrying review_id, 0 when there is none.
FirstMatch(reviews, review_id) ==
    IF \E i \in DOMAIN reviews : reviews[i].id = review_id
    THEN CHOOSE i \in DOMAIN reviews :
            /\ reviews[i].id = review_id
            /\ \A j \in 1..(i - 1) : reviews[j].id /= review_id
    ELSE 0

NotFound == [error |-> "Review not found"]

\* get_review
get_review(f, review_id, fault) ==
    LET loaded == load_reviews(f, fault)
        i == FirstMatch(loaded.reviews, review_id)
    IN  IF ~loaded.ok THEN ServerError(loaded.error)
        ELSE IF i = 0 THEN NotFound
        ELSE loaded.reviews[i]

\* Variant: the status is set on every review.
SetStatusEveryReview(reviews, i, status) ==
    [j \in DOMAIN reviews |-> [reviews[j] EXCEPT !.status = status]]

\* review["status"] = status on the first review carrying review_id.
SetStatus(reviews, i, status) == [reviews EXCEPT ![i].status = status]

\* update_review_status: the document afterwards and the response.
update_review_status(f, review_id, status, fault) ==
    LET loaded == load_reviews(f, fault)
        i == FirstMatch(loaded.reviews, review_id)
        saved == save_reviews(f, SetStatus(loaded.reviews, i, status), fault)
    IN  IF ~loaded.ok THEN [file |-> f, resp |-> ServerError(loaded.error)]
        ELSE IF i = 0 THEN [file |-> f, resp |-> [success |-> FALSE, error |-> "Review not found"]]
        ELSE IF ~saved.ok THEN [file |-> saved.file, resp |-> ServerError(saved.error)]
        ELSE [file |-> saved.file, resp |-> [success |-> TRUE, message |-> "Status updated"]]

\* ratings.count(v)
Count(ratings, v) == Cardinality({i \in DOMAIN ratings : ratings[i] = v})

\* sum(ratings)
RECURSIVE Sum(_)
Sum(ratings) == IF ratings = <<>> THEN 0 ELSE Head(ratings) + Sum(Tail(ratings))

\* Variant: a // b
FloorDiv(a, b) ==
    IF b = 0 THEN [raised |-> TRUE, num |-> a, den |-> b]
    ELSE [raised |-> FALSE, num |-> a \div b, den |-> 1]

\* a / b: the quotient as a fraction; raises ZeroDivisionError when b = 0.
TrueDiv(a, b) == [raised |-> (b = 0), num |-> a, den |-> b]

\* The literal 0 returned as average_rating for an empty collection.
Zero == [raised |-> FALSE, num |-> 0, den |-> 1]

\* get_analytics: the response and the divisions performed (trace).
get_analytics(f, fault) ==
    LET loaded == load_reviews(f, fault)
        reviews == loaded.reviews
        ratings == [i \in DOMAIN reviews |-> reviews[i].user_rating]
        distribution == [v \in MinRating..MaxRating |-> Count(ratings, v)]
        average == TrueDiv(Sum(ratings), Len(ratings))
    IN  IF ~loaded.ok THEN [resp |-> ServerError(loaded.error), trace |-> <<>>]
        ELSE IF reviews = <<>>
        THEN [resp |-> [total_reviews |-> 0, average_rating |-> Zero,
                        rating_distribution |-> <<>>],
              trace |-> <<>>]
        ELSE IF average.raised
        THEN [resp |-> ServerError(<<"ZeroDivisionError">>),
              trace |-> <<[fn |-> "truediv", den |-> Len(ratings)]>>]
        ELSE [resp |-> [total_reviews |-> Len(reviews), average_rating |-> average,
                        rating_distribution |-> distribution],
              trace |-> <<[fn |-> "truediv", den |-> Len(ratings)]>>]

(* ------------------------------ inputs -------------------------------- *)

Clock == 0..MaxClock

Slots == {"A", "B"}

Ratings == {0, 1, 5, 6}

ReviewTexts == {<<>>, <<" ">>, <<"\t", " ">>, <<" ", "o", "k", " ">>}

\* What the surroundings do during one submission: the two clock readings,
\* whether each generator call returns, and the storage fault if any.
Env == [now_id : Clock, now_ts : Clock, ai : BOOLEAN \X BOOLEAN \X BOOLEAN, fault : Faults]

\* Healthy storage; the service is up or down for the whole submission and
\* both clock readings fall on the same tick.
ReviewIds == {TimestampStr(t) : t \in Clock} \cup {"missing"}

Statuses == {"resolved", "pending"}

CoreEnv ==
    {e \in Env : /\ e.fault = "none"
                 /\ e.now_ts = e.now_id
                 /\ e.ai \in {<<TRUE, TRUE, TRUE>>, <<FALSE, FALSE, FALSE>>}}

(* ------------------------------- state -------------------------------- *)

Idle ==
    [op |-> "none", pc |-> "idle", args |-> <<>>, resp |-> <<>>, trace |-> <<>>,
     local |-> <<>>, overlap |-> FALSE]

\* A request answered in one step.
Answered(op, args, resp, trace) ==
    [op |-> op, pc |-> "done", args |-> args, resp |-> resp, trace |-> trace,
     local |-> <<>>, overlap |-> FALSE]

Init ==
    /\ file = NoFile
    /\ calls = [s \in Slots |-> Idle]

\* POST /api/submit-review, served without any other request overlapping.
SubmitReview(ratings, texts, envs, cap) ==
    /\ Len(file.reviews) < cap
    /\ \E rating \in ratings, review_text \in texts, env \in envs :
         LET out == submit_review(file, rating, review_text, env) IN
         /\ file' = out.file
         /\ calls' = [calls EXCEPT !["A"] =
                Answered("submit_review", [rating |-> rating, review_text |-> review_text],
                         out.resp, out.trace)]

\* GET /api/reviews
GetAllReviews(faults) ==
    \E fault \in faults :
      /\ calls' = [calls EXCEPT !["A"] =
             Answered("get_all_reviews", <<>>, get_all_reviews(file, fault), <<>>)]
      /\ UNCHANGED file

\* GET /api/reviews/{review_id}
GetReview(ids, faults) ==
    \E review_id \in ids, fault \in faults :
      /\ calls' = [calls EXCEPT !["A"] =
             Answered("get_review", [review_id |-> review_id],
                      get_review(file, review_id, fault), <<>>)]
      /\ UNCHANGED file

\* POST /api/reviews/{review_id}/status, with no other request overlapping.
UpdateReviewStatus(ids, statuses, faults) ==
    \E review_id \in ids, status \in statuses, fault \in faults :
      LET out == update_review_status(file, review_id, status, fault) IN
      /\ file' = out.file
      /\ calls' = [calls EXCEPT !["A"] =
             Answered("update_review_status", [review_id |-> review_id, status |-> status],
                      out.resp, <<>>)]

\* GET /api/analytics
GetAnalytics(faults) ==
    \E fault \in faults :
      LET out == get_analytics(file, fault) IN
      /\ calls' = [calls EXCEPT !["A"] = Answered("get_analytics", <<>>, out.resp, out.trace)]
      /\ UNCHANGED file

NoFault == {"none"}

Next ==
    \/ SubmitReview(Ratings, ReviewTexts, CoreEnv, MaxReviews)
    \/ GetAllReviews(NoFault)
    \/ GetReview(ReviewIds, NoFault)
    \/ UpdateReviewStatus(ReviewIds, Statuses, NoFault)
    \/ GetAnalytics(NoFault)

Spec == Init /\ [][Next]_vars

(* ---- submissions under every combination of generator outcomes ------- *)

\* Healthy storage; each generator call returns or raises on its own.
AiEnv == {e \in Env : e.fault = "none" /\ e.now_ts = e.now_id}

NextAI ==
    \/ SubmitReview({0, 5}, {<<" ", "o", "k", " ">>}, AiEnv, MaxReviews)
    \/ GetAllReviews(NoFault)

SpecAI == Init /\ [][NextAI]_vars

(* ---- analytics over collections of every rating ---------------------- *)

AllUp == <<TRUE, TRUE, TRUE>>

AnalyticsEnv == {e \in Env : e.fault = "none" /\ e.now_ts = e.now_id /\ e.ai = AllUp}

NextAnalytics ==
    \/ SubmitReview(MinRating..MaxRating, {<<"o", "k">>}, AnalyticsEnv, MaxAnalyticsReviews)
    \/ GetAnalytics(NoFault)

SpecAnalytics == Init /\ [][NextAnalytics]_vars

(* ---- storage that may fail ------------------------------------------- *)

\* Any storage fault, and any two clock readings.
FaultEnv == {e \in Env : e.ai = AllUp}

NextFault ==
    \/ SubmitReview(Ratings, ReviewTexts, FaultEnv, MaxReviews)
    \/ GetAllReviews({"none", "load"})
    \/ UpdateReviewStatus(ReviewIds, Statuses, Faults)

SpecFault == Init /\ [][NextFault]_vars

(* ---- overlapping requests -------------------------------------------- *)
(* A handler runs in a worker thread; between its load and the two steps   *)
(* of its save (open, dump) the other slot's handler may run.              *)

Busy(c) == c.pc \notin {"idle", "done"}

\* Slot s starts serving request c; requests in flight at that moment overlap it.
Begin(s, c) ==
    calls' = [t \in Slots |->
                IF t = s THEN [c EXCEPT !.overlap = \E u \in Slots \ {s} : Busy(calls[u])]
                ELSE IF Busy(calls[t]) THEN [calls[t] EXCEPT !.overlap = TRUE]
                ELSE calls[t]]

Max(S) == CHOOSE x \in S : \A y \in S : y <= x

\* The longest collection in the file or in a handler's hands.
Extent ==
    Max({Len(file.reviews)}
        \cup {Len(calls[t].local.reviews) : t \in {u \in Slots : Busy(calls[u])}})

\* submit_review up to the review object: validation and the generator calls.
BeginSubmit(s, ratings, texts, envs, cap) ==
    /\ ~Busy(calls[s])
    /\ Extent + Cardinality({t \in Slots : calls[t].pc = "load"}) < cap
    /\ \E rating \in ratings, review_text \in texts, env \in envs :
         LET valid == Validate(rating, review_text)
             args == [rating |-> rating, review_text |-> review_text]
         IN  Begin(s, IF ~valid.ok
                      THEN Answered("submit_review", args, valid.resp, <<>>)
                      ELSE [op |-> "submit_review", pc |-> "load", args |-> args,
                            resp |-> <<>>, trace |-> AiCalls(env),
                            local |-> [review |-> GenerateReview(rating, review_text, env),
                                       reviews |-> <<>>],
                            overlap |-> FALSE])
    /\ UNCHANGED file

\* update_review_status on entry.
BeginUpdate(s, ids, statuses) ==
    /\ ~Busy(calls[s])
    /\ \E review_id \in ids, status \in statuses :
         Begin(s, [op |-> "update_review_status", pc |-> "load",
                   args |-> [review_id |-> review_id, status |-> status],
                   resp |-> <<>>, trace |-> <<>>,
                   local |-> [review |-> <<>>, reviews |-> <<>>], overlap |-> FALSE])
    /\ UNCHANGED file

\* The handler returns: its list of reviews goes out of scope.
Finish(c, resp) == [c EXCEPT !.pc = "done", !.resp = resp, !.local.reviews = <<>>]

\* reviews = load_reviews(), and the change made to the loaded list.
Load(s) ==
    /\ calls[s].pc = "load"
    /\ LET c == calls[s]
           loaded == load_reviews(file, "none")
           i == FirstMatch(loaded.reviews, c.args.review_id)
       IN  calls' = [calls EXCEPT ![s] =
             IF c.op = "submit_review"
             THEN IF ~loaded.ok THEN Finish(c, ErrorResponse(loaded.error))
                  ELSE [c EXCEPT !.pc = "open",
                                 !.local.reviews = AppendReview(loaded.reviews, c.local.review)]
             ELSE IF ~loaded.ok THEN Finish(c, ServerError(loaded.error))
                  ELSE IF i = 0
                  THEN Finish(c, [success |-> FALSE, error |-> "Review not found"])
                  ELSE [c EXCEPT !.pc = "open",
                                 !.local.reviews = SetStatus(loaded.reviews, i, c.args.status)]]
    /\ UNCHANGED file

\* save_reviews: open(DB_FILE, 'w').
SaveOpen(s) ==
    /\ calls[s].pc = "open"
    /\ file' = OpenForWrite(file)
    /\ calls' = [calls EXCEPT ![s].pc = "dump"]

\* What a dump leaves: the writer's document; written over a document another
\* writer dumped since this writer's open, possibly that with the tail of the
\* other (no longer parseable).
Dumped(f, reviews) ==
    IF f.kind = "json" THEN {JsonDump(reviews), OpenForWrite(f)} ELSE {JsonDump(reviews)}

\* save_reviews: json.dump and close, then the success response.
SaveDump(s) ==
    /\ calls[s].pc = "dump"
    /\ file' \in Dumped(file, calls[s].local.reviews)
    /\ calls' = [calls EXCEPT ![s] =
          Finish(calls[s],
                 IF calls[s].op = "submit_review"
                 THEN [ai_response |-> calls[s].local.review.ai_response, success |-> TRUE]
                 ELSE [success |-> TRUE, message |-> "Status updated"])]

RaceEnv == AnalyticsEnv

NextRace ==
    \E s \in Slots :
      \/ BeginSubmit(s, {0, 5}, {<<"o", "k">>}, RaceEnv, MaxReviews)
      \/ BeginUpdate(s, ReviewIds, {"resolved"})
      \/ Load(s)
      \/ SaveOpen(s)
      \/ SaveDump(s)

SpecRace == Init /\ [][NextRace]_vars

(* ------------------------------ claims -------------------------------- *)

\* The collection a load of document f yields.
Persisted(f) == f.reviews

IsValidSubmission(args) ==
    /\ args.rating \in 1..5
    /\ Strip(args.review_text) /= <<>>

NoStatus(r) == [r EXCEPT !.status = ""]

\* C1: a valid submission served alone answers success=true and leaves the
\* persisted collection as it was with exactly one record appended at the end,
\* carrying the submitted rating and text and status "pending".
C1_ValidSubmissionAppends ==
    [][LET c == calls'["A"]
           before == Persisted(file)
           after == Persisted(file')
       IN  (c.op = "submit_review" /\ IsValidSubmission(c.args)) =>
             /\ c.resp.success = TRUE
             /\ file'.kind = "json"
             /\ Len(after) = Len(before) + 1
             /\ SubSeq(after, 1, Len(before)) = before
             /\ after[Len(after)].user_rating = c.args.rating
             /\ after[Len(after)].user_review = c.args.review_text
             /\ after[Len(after)].status = "pending"]_vars

C1_Witness ==
    /\ calls["A"].op = "submit_review"
    /\ IsValidSubmission(calls["A"].args)
    /\ calls["A"].resp.success
    /\ Len(Persisted(file)) = 2
    /\ Persisted(file)[1].status = "resolved"
    /\ Persisted(file)[2].user_review = <<" ", "o", "k", " ">>

\* C2: a submission with a rating outside 1..5, or with a rating in 1..5 and
\* empty or whitespace-only text, answers success=false, makes no generator
\* call and leaves the persisted document as it was.
C2_InvalidSubmissionRejected ==
    [][LET c == calls'["A"] IN
       (c.op = "submit_review" /\ ~IsValidSubmission(c.args)) =>
             /\ c.resp.success = FALSE
             /\ c.trace = <<>>
             /\ file' = file]_vars

C2_Witness ==
    /\ calls["A"].op = "submit_review"
    /\ calls["A"].args.rating = 5
    /\ calls["A"].args.review_text = <<"\t", " ">>
    /\ calls["A"].resp.success = FALSE
    /\ Len(Persisted(file)) = 1

\* C3: the ids of the persisted records are pairwise distinct.
C3_IdsDistinct ==
    \A i, j \in DOMAIN Persisted(file) :
        i /= j => Persisted(file)[i].id /= Persisted(file)[j].id

\* C4: a status update served alone, for an id some persisted record carries,
\* answers success=true, get_review(id) then returns a record with the new
\* status, and nothing else in the collection changes; for an id no record
\* carries it answers success=false and the document is left as it was.
C4_UpdateStatusFrame ==
    [][LET c == calls'["A"]
           before == Persisted(file)
           after == Persisted(file')
       IN  c.op = "update_review_status" =>
             IF \E i \in DOMAIN before : before[i].id = c.args.review_id
             THEN /\ c.resp = [success |-> TRUE, message |-> "Status updated"]
                  /\ get_review(file', c.args.review_id, "none").status = c.args.status
                  /\ DOMAIN after = DOMAIN before
                  /\ \E k \in DOMAIN before :
                        /\ before[k].id = c.args.review_id
                        /\ after[k].status = c.args.status
                        /\ NoStatus(after[k]) = NoStatus(before[k])
                        /\ \A j \in DOMAIN before \ {k} : after[j] = before[j]
             ELSE /\ c.resp.success = FALSE
                  /\ file' = file]_vars

C4_Witness ==
    /\ calls["A"].op = "update_review_status"
    /\ calls["A"].resp.success
    /\ calls["A"].args.status = "resolved"
    /\ Len(Persisted(file)) = 2
    /\ Persisted(file)[1].status = "pending"
    /\ Persisted(file)[2].status = "resolved"

\* C7: get_review(id) answers the persisted record carrying that id, as stored
\* for it, whenever there is one, and the not-found indicator otherwise.
C7_GetReviewReturnsTheRecord ==
    LET c == calls["A"] IN
    c.op = "get_review" =>
        /\ \A i \in DOMAIN Persisted(file) :
              Persisted(file)[i].id = c.args.review_id => c.resp = Persisted(file)[i]
        /\ (\A i \in DOMAIN Persisted(file) : Persisted(file)[i].id /= c.args.review_id)
              => c.resp = NotFound

\* C10: over requests served one at a time the collection only grows, records
\* keep their place and every field but status, every persisted rating is in
\* 1..5, and the read endpoints leave the document as it was.
C10_OnlyGrowsOnlyStatusChanges ==
    [][LET c == calls'["A"]
           before == Persisted(file)
           after == Persisted(file')
       IN  /\ file'.kind \in {"absent", "json"}
           /\ Len(after) >= Len(before)
           /\ \A i \in DOMAIN before : NoStatus(after[i]) = NoStatus(before[i])
           /\ \A i \in DOMAIN after : after[i].user_rating \in 1..5
           /\ c.op \in {"get_all_reviews", "get_review", "get_analytics"} => file' = file
           /\ c.op = "update_review_status" => Len(after) = Len(before)]_vars

C10_Witness ==
    /\ calls["A"].op = "get_analytics"
    /\ Len(Persisted(file)) = 2
    /\ Persisted(file)[1].status = "resolved"
    /\ Persisted(file)[1].user_rating /= Persisted(file)[2].user_rating


\* C5: when a generator call fails during a valid submission, the submission
\* still answers success=true and persists its record; each of ai_response,
\* ai_summary and ai_recommended_action holds its own call's placeholder if
\* that call failed and the service's text otherwise, whatever the other calls did.
C5_GeneratorFailureIsPlaceholder ==
    [][LET c == calls'["A"]
           before == Persisted(file)
           after == Persisted(file')
           r == after[Len(after)]
       IN  (/\ c.op = "submit_review"
            /\ IsValidSubmission(c.args)
            /\ \E k \in DOMAIN c.trace : ~c.trace[k].up) =>
             /\ Len(c.trace) = 3
             /\ c.resp.success = TRUE
             /\ Len(after) = Len(before) + 1
             /\ r.ai_response =
                   IF c.trace[1].up THEN <<"response">>
                   ELSE <<"Error generating response: ", "503 unavailable">>
             /\ r.ai_summary =
                   IF c.trace[2].up THEN <<"summary">> ELSE <<"Unable to generate summary">>
             /\ r.ai_recommended_action =
                   IF c.trace[3].up THEN <<"action">> ELSE <<"Unable to generate action">>
             /\ c.resp.ai_response = r.ai_response]_vars

C5_Witness ==
    /\ calls["A"].op = "submit_review"
    /\ calls["A"].resp.success
    /\ Len(Persisted(file)) = 2
    /\ Persisted(file)[2].ai_response = <<"response">>
    /\ Persisted(file)[2].ai_summary = <<"Unable to generate summary">>
    /\ Persisted(file)[2].ai_recommended_action = <<"action">>
    /\ Persisted(file)[1].ai_response = <<"Error generating response: ", "503 unavailable">>

\* The persisted ratings, in order.
PersistedRatings == [i \in DOMAIN Persisted(file) |-> Persisted(file)[i].user_rating]

NumberOf(v) == Cardinality({i \in DOMAIN Persisted(file) : PersistedRatings[i] = v})

\* C6: get_analytics on a non-empty collection answers the number of records,
\* for each value 1..5 the number of records rated so (summing to the total),
\* and the sum of the ratings divided by the number of records; ratings
\* [5,5,1] give total 3, 11/3 and {1:1, 2:0, 3:0, 4:0, 5:2}.  On an empty
\* collection it answers total 0, average 0, an empty distribution, and
\* divides nothing.
C6_Analytics ==
    LET c == calls["A"]
        n == Len(Persisted(file))
        total == NumberOf(1) + 2 * NumberOf(2) + 3 * NumberOf(3) + 4 * NumberOf(4)
                   + 5 * NumberOf(5)
        d == c.resp.rating_distribution
    IN  c.op = "get_analytics" =>
          IF n > 0
          THEN /\ c.resp.total_reviews = n
               /\ DOMAIN d = 1..5
               /\ \A v \in 1..5 : d[v] = NumberOf(v)
               /\ d[1] + d[2] + d[3] + d[4] + d[5] = c.resp.total_reviews
               /\ c.resp.average_rating.den /= 0
               /\ c.resp.average_rating.num * n = total * c.resp.average_rating.den
               /\ PersistedRatings = <<5, 5, 1>> =>
                     /\ c.resp.total_reviews = 3
                     /\ c.resp.average_rating.num * 3 = 11 * c.resp.average_rating.den
                     /\ d = <<1, 0, 0, 0, 2>>
          ELSE /\ c.resp.total_reviews = 0
               /\ c.resp.average_rating.num = 0
               /\ c.resp.average_rating.den /= 0
               /\ d = <<>>
               /\ c.trace = <<>>

C6_Witness ==
    /\ calls["A"].op = "get_analytics"
    /\ PersistedRatings = <<5, 5, 1>>
    /\ calls["A"].resp.total_reviews = 3

\* The change a successful mutating request made is in the persisted
\* collection: the submitted record (whatever its status now), or the status.
Reflected(c) ==
    IF c.op = "submit_review"
    THEN \E i \in DOMAIN Persisted(file) : NoStatus(Persisted(file)[i]) = NoStatus(c.local.review)
    ELSE \E i \in DOMAIN Persisted(file) :
            /\ Persisted(file)[i].id = c.args.review_id
            /\ Persisted(file)[i].status = c.args.status

Succeeded(c) ==
    /\ c.pc = "done"
    /\ c.op \in {"submit_review", "update_review_status"}
    /\ "success" \in DOMAIN c.resp
    /\ c.resp.success = TRUE

\* C8: with unsynchronized load / modify / save, a change answered with
\* success is missing from the persisted collection only when another request
\* overlapped the one that made it (and such a state is reachable: C8_Witness).
C8_LostOnlyByOverlap ==
    \A s \in Slots :
        (Succeeded(calls[s]) /\ file.kind = "json" /\ ~Reflected(calls[s]))
            => calls[s].overlap

C8_Witness ==
    /\ file.kind = "json"
    /\ \A s \in Slots : Succeeded(calls[s])
    /\ \E s \in Slots : calls[s].op = "submit_review" /\ ~Reflected(calls[s])

\* A status update answered with success whose status is not in the collection.
C8_WitnessUpdate ==
    /\ file.kind = "json"
    /\ \A s \in Slots : Succeeded(calls[s])
    /\ \E s \in Slots : calls[s].op = "update_review_status" /\ ~Reflected(calls[s])

\* C9: the save of a submission comes after its three generator calls, and a
\* valid submission answered success=false (a failing load or save) leaves the
\* persisted document as it was.
C9_FailedSubmissionLeavesStorage ==
    [][LET c == calls'["A"] IN
       c.op = "submit_review" =>
         /\ file' /= file => Len(c.trace) = 3
         /\ (IsValidSubmission(c.args) /\ c.resp.success = FALSE) => file' = file]_vars

====
